---- MODULE Spec2Model ----
(***************************************************************************)
(* Model of src/src/group_adjust.py: group_adjust and its three backends   *)
(* (group_adjust_pandas, group_adjust_polars, group_adjust_numpy).         *)
(*                                                                         *)
(* Floating-point numbers are modelled as exact rationals in lowest terms, *)
(* so rounding is outside the model.  A value is a record with a tag:      *)
(*   "num"  a number n/d,  "nan"  float NaN,  "none"  Python None / a      *)
(*   polars null.                                                          *)
(***************************************************************************)
EXTENDS Integers, Sequences, FiniteSets, TLC

VARIABLES entry, pc, vals, groups, weights,
          df_vals, weighted_sum, df_groups,
          np_vals, adjusted_vals,
          i, result, err, errmsg

vars == <<entry, pc, vals, groups, weights, df_vals, weighted_sum, df_groups,
          np_vals, adjusted_vals, i, result, err, errmsg>>

inputs == <<entry, vals, groups, weights>>

(* ---------------------------- bounds ----------------------------------- *)
MaxN == 2
MaxK == 2

(* ---------------------------- numbers ---------------------------------- *)
Abs(x) == IF x < 0 THEN -x ELSE x

RECURSIVE GCD(_, _)
GCD(a, b) == IF b = 0 THEN a ELSE GCD(b, a % b)

Norm(n, d) ==
    LET g == GCD(Abs(n), d)
    IN  [tag |-> "num", n |-> n \div g, d |-> d \div g]

Zero == Norm(0, 1)
One  == Norm(1, 1)
NaN  == [tag |-> "nan", n |-> 0, d |-> 1]
None == [tag |-> "none", n |-> 0, d |-> 1]

\* The missing operand wins: null over NaN over a number.
Missing(x, y) ==
    IF x.tag = "none" \/ y.tag = "none" THEN None ELSE NaN

FAdd(x, y) ==
    IF x.tag = "num" /\ y.tag = "num"
    THEN Norm(x.n * y.d + y.n * x.d, x.d * y.d)
    ELSE Missing(x, y)

FSub(x, y) ==
    IF x.tag = "num" /\ y.tag = "num"
    THEN Norm(x.n * y.d - y.n * x.d, x.d * y.d)
    ELSE Missing(x, y)

FMul(x, y) ==
    IF x.tag = "num" /\ y.tag = "num"
    THEN Norm(x.n * y.n, x.d * y.d)
    ELSE Missing(x, y)

\* x / c for a positive integer count c
FDivInt(x, c) ==
    IF x.tag = "num" THEN Norm(x.n, x.d * c) ELSE x

(* ---------------------------- inputs ----------------------------------- *)
Values     == {Norm(1, 1), Norm(2, 1), NaN, None}
Labels     == {"MA", "RI"}
WeightVals == {Norm(1, 2), One}
Entries    == {"group_adjust", "group_adjust_pandas",
               "group_adjust_polars", "group_adjust_numpy"}

SeqsUpTo(S, n) == UNION {[1..k -> S] : k \in 0..n}

\* The partitions a call on n values is given.  Labels are opaque and only
\* compared for equality, so a partition is taken up to the renaming of its
\* labels (its first label is "RI"); a partition of another length than n
\* is rejected before any of its labels is read, so one of each length is
\* enough.
GroupChoices(n) ==
    {g \in SeqsUpTo(Labels, MaxN) :
        /\ Len(g) > 0 => g[1] = "RI"
        /\ Len(g) # n => \A p \in DOMAIN g : g[p] = "RI"}

\* The weights a call with k partitions is given.  A weight list of another
\* length than k is rejected before any weight is read, so one of each
\* length is enough.
WeightChoices(k) ==
    {w \in SeqsUpTo(WeightVals, MaxK) :
        Len(w) # k => \A p \in DOMAIN w : w[p] = One}

WeightsMsg == "Length of weights must match the number of groups."
GroupMsg   == "Length of each group must match the length of vals."

(* ---------------------------- helpers ---------------------------------- *)
\* sum of col[p] over the positions p <= k with mask[p]
RECURSIVE MaskSum(_, _, _)
MaskSum(col, mask, k) ==
    IF k = 0 THEN Zero
    ELSE IF mask[k] THEN FAdd(MaskSum(col, mask, k - 1), col[k])
         ELSE MaskSum(col, mask, k - 1)

MaskCount(mask) == Cardinality({p \in DOMAIN mask : mask[p]})

Zeros(n) == [p \in 1..n |-> Zero]

HasNone(s) == \E p \in DOMAIN s : s[p].tag = "none"

(* ---------------------------- pandas ----------------------------------- *)
\* pd.to_numeric(vals, errors="coerce"): None becomes NaN
to_numeric(s) ==
    [p \in DOMAIN s |-> IF s[p].tag = "none" THEN NaN ELSE s[p]]

\* mutant: the mean divides by the number of rows of the label, missing or not
GroupByMean_CountsMissing(col, group, L) ==
    LET mask == [p \in DOMAIN col |-> group[p] = L /\ col[p].tag = "num"]
        rows == [p \in DOMAIN col |-> group[p] = L]
    IN  IF MaskCount(mask) = 0 THEN NaN
        ELSE FDivInt(MaskSum(col, mask, Len(col)), MaskCount(rows))

\* df.groupby(group_key)["vals"].mean() looked up at label L: the mean skips
\* NaN, and is NaN for a label all of whose values are NaN
GroupByMean(col, group, L) ==
    LET mask == [p \in DOMAIN col |-> group[p] = L /\ col[p].tag = "num"]
    IN  IF MaskCount(mask) = 0 THEN NaN
        ELSE FDivInt(MaskSum(col, mask, Len(col)), MaskCount(mask))

\* mutant: "=" for "+=", the last partition's weighted mean replaces the sum
PandasAccumulate_Overwrite(col, ws, group, weight) ==
    [p \in DOMAIN ws |-> FMul(GroupByMean(col, group, group[p]), weight)]

\* df["weighted_sum"] += df[group_key].map(means).astype(float) * weights[i]
PandasAccumulate(col, ws, group, weight) ==
    [p \in DOMAIN ws |->
        FAdd(ws[p], FMul(GroupByMean(col, group, group[p]), weight))]

\* mutant: missing values are filled with zero before the subtraction
PandasDemeanCol_FillZero(col, ws) ==
    [p \in DOMAIN col |->
        FSub(IF col[p].tag = "num" THEN col[p] ELSE Zero,
             IF ws[p].tag = "num" THEN ws[p] ELSE Zero)]

\* mutant: the rows with a missing result are dropped
PandasDemeanCol_DropNa(col, ws) ==
    SelectSeq([p \in DOMAIN col |-> FSub(col[p], ws[p])],
              LAMBDA x : x.tag = "num")

\* demeaned_vals = df["vals"] - df["weighted_sum"]
PandasDemeanCol(col, ws) ==
    [p \in DOMAIN col |-> FSub(col[p], ws[p])]

\* the weighted_sum column after the first k passes of the loop
RECURSIVE PandasLoop(_, _, _, _)
PandasLoop(col, gs, ws, k) ==
    IF k = 0 THEN Zeros(Len(col))
    ELSE PandasAccumulate(col, PandasLoop(col, gs, ws, k - 1), gs[k], ws[k])

\* the value group_adjust_pandas returns on a valid input
PandasResult(v, gs, ws) ==
    PandasDemeanCol(to_numeric(v), PandasLoop(to_numeric(v), gs, ws, Len(gs)))

(* ---------------------------- numpy ------------------------------------ *)
\* np.mean(vals[group_mask & valid_mask])
NumpyMean(v, mask) ==
    IF MaskCount(mask) = 0 THEN NaN
    ELSE FDivInt(MaskSum(v, mask, Len(v)), MaskCount(mask))

\* mutant: no valid_mask, so a NaN enters the mean of its label
NumpyAccumulate_NoValidMask(v, adj, group, weight) ==
    LET unique_groups == {group[p] : p \in DOMAIN v}
        mean_val(ug)  ==
            IF \E p \in DOMAIN v : group[p] = ug /\ v[p].tag = "nan"
            THEN NaN
            ELSE NumpyMean(v, [p \in DOMAIN v |-> group[p] = ug])
    IN  [p \in DOMAIN adj |->
            IF group[p] \in unique_groups
            THEN FAdd(adj[p], FMul(mean_val(group[p]), weight))
            ELSE adj[p]]

\* one pass of the outer loop: for every label ug that has a valid value,
\* adjusted_vals[group == ug] += mean_val * weight (the masks of distinct
\* labels are disjoint, so the inner loop's order does not matter)
NumpyAccumulate(v, adj, group, weight) ==
    LET valid_mask    == [p \in DOMAIN v |-> v[p].tag # "nan"]
        unique_groups == {group[p] : p \in {q \in DOMAIN v : valid_mask[q]}}
        mean_val(ug)  == NumpyMean(v, [p \in DOMAIN v |->
                                         group[p] = ug /\ valid_mask[p]])
    IN  [p \in DOMAIN adj |->
            IF group[p] \in unique_groups
            THEN FAdd(adj[p], FMul(mean_val(group[p]), weight))
            ELSE adj[p]]

\* vals - adjusted_vals
NumpySubtract(v, adj) ==
    [p \in DOMAIN v |-> FSub(v[p], adj[p])]

\* adjusted_vals after the first k passes of the outer loop
RECURSIVE NumpyLoopFold(_, _, _, _)
NumpyLoopFold(v, gs, ws, k) ==
    IF k = 0 THEN Zeros(Len(v))
    ELSE NumpyAccumulate(v, NumpyLoopFold(v, gs, ws, k - 1), gs[k], ws[k])

\* the value group_adjust_numpy returns on a valid input without None
NumpyResult(v, gs, ws) ==
    NumpySubtract(v, NumpyLoopFold(v, gs, ws, Len(gs)))

(* ---------------------------- polars ----------------------------------- *)
\* pl.col("vals").mean() per group: nulls are skipped, NaN is a float value
PolarsMean(col, group, L) ==
    LET mask == [p \in DOMAIN col |-> group[p] = L /\ col[p].tag # "none"]
    IN  IF MaskCount(mask) = 0 THEN None
        ELSE FDivInt(MaskSum(col, mask, Len(col)), MaskCount(mask))

\* sum([weighted_mean_0, ..., weighted_mean_{k-1}]) at position p
RECURSIVE PolarsWeightedSum(_, _, _, _, _)
PolarsWeightedSum(col, gs, ws, p, k) ==
    IF k = 0 THEN Zero
    ELSE FAdd(PolarsWeightedSum(col, gs, ws, p, k - 1),
              FMul(PolarsMean(col, gs[k], gs[k][p]), ws[k]))

PolarsDemean(col, gs, ws) ==
    [p \in DOMAIN col |->
        FSub(col[p], PolarsWeightedSum(col, gs, ws, p, Len(gs)))]

(* ---------------------------- state machine ---------------------------- *)
Init ==
    /\ entry \in Entries
    /\ pc = entry
    /\ vals \in SeqsUpTo(Values, MaxN)
    /\ groups \in SeqsUpTo(GroupChoices(Len(vals)), MaxK)
    /\ weights \in WeightChoices(Len(groups))
    /\ df_vals = <<>>
    /\ weighted_sum = <<>>
    /\ df_groups = <<>>
    /\ np_vals = <<>>
    /\ adjusted_vals = <<>>
    /\ i = 0
    /\ result = <<>>
    /\ err = "none"
    /\ errmsg = ""

Raise(kind, msg) ==
    /\ pc' = "error"
    /\ err' = kind
    /\ errmsg' = msg

\* group_adjust: return group_adjust_pandas(vals, groups, weights)
GroupAdjust ==
    /\ pc = "group_adjust"
    /\ pc' = "group_adjust_pandas"
    /\ UNCHANGED <<inputs, df_vals, weighted_sum, df_groups, np_vals,
                   adjusted_vals, i, result, err, errmsg>>

\* mutant: the groups' lengths are examined before the weight count
PandasRaiseWeights_GroupsFirst ==
    /\ pc = "group_adjust_pandas"
    /\ Len(groups) # Len(weights)
    /\ Raise("ValueError",
             IF \E k \in DOMAIN groups : Len(groups[k]) # Len(vals)
             THEN GroupMsg ELSE WeightsMsg)
    /\ UNCHANGED <<inputs, df_vals, weighted_sum, df_groups, np_vals,
                   adjusted_vals, i, result>>

PandasRaiseWeights ==
    /\ pc = "group_adjust_pandas"
    /\ Len(groups) # Len(weights)
    /\ Raise("ValueError", WeightsMsg)
    /\ UNCHANGED <<inputs, df_vals, weighted_sum, df_groups, np_vals,
                   adjusted_vals, i, result>>

PandasBuildDf ==
    /\ pc = "group_adjust_pandas"
    /\ Len(groups) = Len(weights)
    /\ df_vals' = to_numeric(vals)
    /\ weighted_sum' = Zeros(Len(vals))
    /\ i' = 0
    /\ pc' = "pandas_loop"
    /\ UNCHANGED <<inputs, df_groups, np_vals, adjusted_vals, result,
                   err, errmsg>>

\* mutant: every remaining group is validated before the next aggregation
PandasRaiseGroupLen_AnyGroup ==
    /\ pc = "pandas_loop"
    /\ i < Len(groups)
    /\ \E k \in (i + 1)..Len(groups) : Len(groups[k]) # Len(vals)
    /\ Raise("ValueError", GroupMsg)
    /\ UNCHANGED <<inputs, df_vals, weighted_sum, df_groups, np_vals,
                   adjusted_vals, i, result>>

PandasRaiseGroupLen ==
    /\ pc = "pandas_loop"
    /\ i < Len(groups)
    /\ Len(groups[i + 1]) # Len(vals)
    /\ Raise("ValueError", GroupMsg)
    /\ UNCHANGED <<inputs, df_vals, weighted_sum, df_groups, np_vals,
                   adjusted_vals, i, result>>

PandasAggregate ==
    /\ pc = "pandas_loop"
    /\ i < Len(groups)
    /\ Len(groups[i + 1]) = Len(vals)
    /\ df_groups' = Append(df_groups, groups[i + 1])
    /\ weighted_sum' = PandasAccumulate(df_vals, weighted_sum,
                                        groups[i + 1], weights[i + 1])
    /\ i' = i + 1
    /\ UNCHANGED <<inputs, pc, df_vals, np_vals, adjusted_vals, result,
                   err, errmsg>>

PandasDemean ==
    /\ pc = "pandas_loop"
    /\ i = Len(groups)
    /\ result' = PandasDemeanCol(df_vals, weighted_sum)
    /\ pc' = "done"
    /\ UNCHANGED <<inputs, df_vals, weighted_sum, df_groups, np_vals,
                   adjusted_vals, i, err, errmsg>>

PolarsRaiseWeights ==
    /\ pc = "group_adjust_polars"
    /\ Len(groups) # Len(weights)
    /\ Raise("ValueError", WeightsMsg)
    /\ UNCHANGED <<inputs, df_vals, weighted_sum, df_groups, np_vals,
                   adjusted_vals, i, result>>

\* pl.DataFrame({"vals": vals}) and the weighted_sum column; the column
\* assignment of line 189 is taken to succeed, as the polars tests need it to
PolarsBuildDf ==
    /\ pc = "group_adjust_polars"
    /\ Len(groups) = Len(weights)
    /\ df_vals' = vals
    /\ weighted_sum' = Zeros(Len(vals))
    /\ pc' = "polars_validate"
    /\ UNCHANGED <<inputs, df_groups, np_vals, adjusted_vals, i, result,
                   err, errmsg>>

PolarsRaiseGroupLen ==
    /\ pc = "polars_validate"
    /\ \E k \in DOMAIN groups : Len(groups[k]) # Len(vals)
    /\ Raise("ValueError", GroupMsg)
    /\ UNCHANGED <<inputs, df_vals, weighted_sum, df_groups, np_vals,
                   adjusted_vals, i, result>>

\* sum([]) is the int 0, which has no .alias
PolarsRaiseNoGroups ==
    /\ pc = "polars_validate"
    /\ Len(groups) = 0
    /\ Raise("AttributeError", "")
    /\ UNCHANGED <<inputs, df_vals, weighted_sum, df_groups, np_vals,
                   adjusted_vals, i, result>>

PolarsAggregate ==
    /\ pc = "polars_validate"
    /\ Len(groups) > 0
    /\ \A k \in DOMAIN groups : Len(groups[k]) = Len(vals)
    /\ df_groups' = groups
    /\ result' = PolarsDemean(df_vals, groups, weights)
    /\ pc' = "done"
    /\ UNCHANGED <<inputs, df_vals, weighted_sum, np_vals, adjusted_vals,
                   i, err, errmsg>>

NumpyRaiseWeights ==
    /\ pc = "group_adjust_numpy"
    /\ Len(groups) # Len(weights)
    /\ Raise("ValueError", WeightsMsg)
    /\ UNCHANGED <<inputs, df_vals, weighted_sum, df_groups, np_vals,
                   adjusted_vals, i, result>>

\* mutant: the weight count is not checked
NumpyArray_NoCheck ==
    /\ pc = "group_adjust_numpy"
    /\ np_vals' = vals
    /\ adjusted_vals' = Zeros(Len(vals))
    /\ i' = 0
    /\ pc' = "numpy_loop"
    /\ UNCHANGED <<inputs, df_vals, weighted_sum, df_groups, result,
                   err, errmsg>>

NumpyArray ==
    /\ pc = "group_adjust_numpy"
    /\ Len(groups) = Len(weights)
    /\ np_vals' = vals
    /\ adjusted_vals' = Zeros(Len(vals))
    /\ i' = 0
    /\ pc' = "numpy_loop"
    /\ UNCHANGED <<inputs, df_vals, weighted_sum, df_groups, result,
                   err, errmsg>>

\* np.isnan on an object array (a None among the values)
NumpyRaiseIsnan ==
    /\ pc = "numpy_loop"
    /\ i < Len(groups)
    /\ HasNone(np_vals)
    /\ Raise("TypeError", "")
    /\ UNCHANGED <<inputs, df_vals, weighted_sum, df_groups, np_vals,
                   adjusted_vals, i, result>>

\* group[valid_mask] with a boolean mask of another length
NumpyRaiseIndex ==
    /\ pc = "numpy_loop"
    /\ i < Len(groups)
    /\ ~HasNone(np_vals)
    /\ Len(groups[i + 1]) # Len(np_vals)
    /\ Raise("IndexError", "")
    /\ UNCHANGED <<inputs, df_vals, weighted_sum, df_groups, np_vals,
                   adjusted_vals, i, result>>

NumpyLoop ==
    /\ pc = "numpy_loop"
    /\ i < Len(groups)
    /\ ~HasNone(np_vals)
    /\ Len(groups[i + 1]) = Len(np_vals)
    /\ adjusted_vals' = NumpyAccumulate(np_vals, adjusted_vals,
                                        groups[i + 1], weights[i + 1])
    /\ i' = i + 1
    /\ UNCHANGED <<inputs, pc, df_vals, weighted_sum, df_groups, np_vals,
                   result, err, errmsg>>

\* None - 0.0 in the final subtraction (only without groups: with one, isnan
\* has raised already)
NumpyRaiseSubtract ==
    /\ pc = "numpy_loop"
    /\ i = Len(groups)
    /\ HasNone(np_vals)
    /\ Raise("TypeError", "")
    /\ UNCHANGED <<inputs, df_vals, weighted_sum, df_groups, np_vals,
                   adjusted_vals, i, result>>

\* mutant: "vals -= adjusted_vals" on the caller's own array
NumpyReturn_InPlace ==
    /\ pc = "numpy_loop"
    /\ i = Len(groups)
    /\ ~HasNone(np_vals)
    /\ result' = NumpySubtract(np_vals, adjusted_vals)
    /\ vals' = result'
    /\ pc' = "done"
    /\ UNCHANGED <<entry, groups, weights, df_vals, weighted_sum, df_groups,
                   np_vals, adjusted_vals, i, err, errmsg>>

NumpyReturn ==
    /\ pc = "numpy_loop"
    /\ i = Len(groups)
    /\ ~HasNone(np_vals)
    /\ result' = NumpySubtract(np_vals, adjusted_vals)
    /\ pc' = "done"
    /\ UNCHANGED <<inputs, df_vals, weighted_sum, df_groups, np_vals,
                   adjusted_vals, i, err, errmsg>>

Next ==
    \/ GroupAdjust
    \/ PandasRaiseWeights
    \/ PandasBuildDf
    \/ PandasRaiseGroupLen
    \/ PandasAggregate
    \/ PandasDemean
    \/ PolarsRaiseWeights
    \/ PolarsBuildDf
    \/ PolarsRaiseGroupLen
    \/ PolarsRaiseNoGroups
    \/ PolarsAggregate
    \/ NumpyRaiseWeights
    \/ NumpyArray
    \/ NumpyRaiseIsnan
    \/ NumpyRaiseIndex
    \/ NumpyLoop
    \/ NumpyRaiseSubtract
    \/ NumpyReturn

Spec == Init /\ [][Next]_vars

(* ---------------------------- properties ------------------------------- *)
Impl == IF entry = "group_adjust" THEN "group_adjust_pandas" ELSE entry

Terminal == pc \in {"done", "error"}

Started == pc \notin Entries

BadGroup(k) == Len(groups[k]) # Len(vals)

SomeBadGroup == \E k \in DOMAIN groups : BadGroup(k)

\* reference arithmetic, written from the closed form of the adjustment
RECURSIVE RefSum(_, _)
RefSum(S, f) ==
    IF S = {} THEN Zero
    ELSE LET p == CHOOSE x \in S : TRUE
         IN  FAdd(f[p], RefSum(S \ {p}, f))

RefMembers(k, L) ==
    {p \in DOMAIN vals : groups[k][p] = L /\ vals[p].tag = "num"}

RefMean(k, L) ==
    FDivInt(RefSum(RefMembers(k, L), vals), Cardinality(RefMembers(k, L)))

RECURSIVE RefWeighted(_, _)
RefWeighted(p, k) ==
    IF k = 0 THEN Zero
    ELSE FAdd(RefWeighted(p, k - 1),
              FMul(weights[k], RefMean(k, groups[k][p])))

Expected(p) == FSub(vals[p], RefWeighted(p, Len(groups)))

\* C1: when group_adjust / group_adjust_pandas returns, the output at every
\* position p whose value is not missing is vals[p] minus the sum over the
\* partitions of weights[i] times the mean of the non-missing values that
\* carry p's label in partition i (weights used as given).
C1_WeightedDemean ==
    (pc = "done" /\ Impl = "group_adjust_pandas") =>
        \A p \in DOMAIN vals :
            vals[p].tag = "num" =>
                p \in DOMAIN result /\ result[p] = Expected(p)

C1_Witness ==
    /\ pc = "done"
    /\ Impl = "group_adjust_pandas"
    /\ Len(groups) = 2
    /\ weights = <<Norm(1, 2), One>>
    /\ \E p, q \in DOMAIN vals :
          /\ p # q
          /\ vals[p].tag = "num" /\ vals[q].tag = "num" /\ vals[p] # vals[q]
          /\ groups[1][p] = groups[1][q]
          /\ groups[2][p] # groups[2][q]
          /\ result[p] # vals[p]

\* C2: with len(weights) != len(groups), once any of the implementations has
\* started it has failed with ValueError and has produced no result,
\* whatever vals and the groups hold.
C2_WeightCountError ==
    (Len(weights) # Len(groups) /\ Started) =>
        /\ pc = "error"
        /\ err = "ValueError"
        /\ result = <<>>

C2_Witness ==
    /\ pc = "error"
    /\ Impl = "group_adjust_polars"
    /\ Len(weights) # Len(groups)
    /\ SomeBadGroup
    /\ HasNone(vals)
    /\ err = "ValueError"

\* C3: with len(weights) == len(groups) and some group whose length differs
\* from len(vals), every implementation ends in an error of kind ValueError
\* (stated for a non-empty vals of numbers and NaN, the missing marker of the
\* numpy tests).
C3_GroupLengthError ==
    (Len(weights) = Len(groups) /\ SomeBadGroup /\ ~HasNone(vals)
        /\ Len(vals) > 0 /\ Terminal) =>
        /\ pc = "error"
        /\ err = "ValueError"

C5_MissingPropagation ==
    (pc = "done" /\ Impl \in {"group_adjust_pandas", "group_adjust_numpy"}) =>
        \A p \in DOMAIN vals :
            vals[p].tag # "num" =>
                p \in DOMAIN result /\ result[p].tag = "nan"

C5_Witness ==
    /\ pc = "done"
    /\ Impl = "group_adjust_numpy"
    /\ Len(groups) = 2
    /\ \E p, q \in DOMAIN vals :
          /\ vals[p].tag = "nan" /\ vals[q].tag = "num"
          /\ groups[1][p] = groups[1][q]
          /\ adjusted_vals[p].tag = "num" /\ adjusted_vals[p] # Zero
          /\ result[p].tag = "nan"

\* C6: when group_adjust returns, the output has len(vals) elements and row
\* p of the output is row p of the input: it is missing exactly where the
\* value is missing, it is the value itself without partitions, and two rows
\* with the same labels in every partition differ as their values do.
C6_LengthAndOrder ==
    (pc = "done" /\ entry = "group_adjust") =>
        /\ Len(result) = Len(vals)
        /\ \A p \in DOMAIN vals :
              /\ (result[p].tag = "nan") <=> (vals[p].tag # "num")
              /\ (Len(groups) = 0 /\ vals[p].tag = "num") =>
                    result[p] = vals[p]
        /\ \A p, q \in DOMAIN vals :
              (/\ vals[p].tag = "num" /\ vals[q].tag = "num"
               /\ \A k \in DOMAIN groups : groups[k][p] = groups[k][q]) =>
                    FSub(result[p], result[q]) = FSub(vals[p], vals[q])

C6_Witness ==
    /\ pc = "done"
    /\ entry = "group_adjust"
    /\ Len(vals) = 2
    /\ Len(groups) = 1
    /\ groups[1] = <<"RI", "MA">>
    /\ vals[1].tag = "nan"
    /\ vals[2].tag = "num"
    /\ result[2].tag = "num"

AllNum == {p \in DOMAIN vals : vals[p].tag = "num"}

MeanOfVals == FDivInt(RefSum(AllNum, vals), Cardinality(AllNum))

SingleGroup ==
    /\ Len(groups) = 1
    /\ Len(groups[1]) = Len(vals)
    /\ \A p, q \in DOMAIN groups[1] : groups[1][p] = groups[1][q]
    /\ weights = <<One>>

\* C7: with one partition whose positions all carry the same label and
\* weights = [1.0], the output at every non-missing position is the value
\* minus the mean of all non-missing values, and the non-missing outputs sum
\* to zero.
C7_SingleGroupIdentity ==
    (pc = "done" /\ Impl = "group_adjust_pandas" /\ SingleGroup) =>
        /\ \A p \in AllNum :
              p \in DOMAIN result /\ result[p] = FSub(vals[p], MeanOfVals)
        /\ AllNum \subseteq DOMAIN result
        /\ RefSum(AllNum \cap DOMAIN result, result) = Zero

C7_Witness ==
    /\ pc = "done"
    /\ Impl = "group_adjust_pandas"
    /\ SingleGroup
    /\ Cardinality(AllNum) = 2
    /\ \E p, q \in AllNum : vals[p] # vals[q] /\ result[p] # Zero

\* C8: no step of any call changes the caller's vals, groups or weights,
\* whether the call goes on to return or to fail.
C8_NoMutation ==
    [][vals' = vals /\ groups' = groups /\ weights' = weights]_vars

C8_Witness ==
    /\ pc = "error"
    /\ Impl = "group_adjust_pandas"
    /\ errmsg = GroupMsg
    /\ i = 1
    /\ HasNone(vals)
    /\ df_vals # vals

\* C9: on a valid input of numbers and NaN, group_adjust_numpy returns what
\* group_adjust_pandas computes and group_adjust_pandas returns what
\* group_adjust_numpy computes: position by position the same number or
\* both missing.
C9_NumpyEqualsPandas ==
    (pc = "done" /\ ~HasNone(vals)) =>
        /\ Impl = "group_adjust_numpy" =>
              result = PandasResult(vals, groups, weights)
        /\ Impl = "group_adjust_pandas" =>
              result = NumpyResult(vals, groups, weights)

C9_Witness ==
    /\ pc = "done"
    /\ Impl = "group_adjust_numpy"
    /\ vals = <<NaN, Norm(2, 1)>>
    /\ groups = <<(<<"RI", "MA">>), (<<"RI", "RI">>)>>
    /\ adjusted_vals[1] # adjusted_vals[2]

\* C10: on an input that violates both conditions, group_adjust_pandas fails
\* with the weight-count message, and it reaches the loop that examines the
\* groups' lengths only with len(groups) == len(weights).
C10_WeightCheckFirst ==
    (Impl = "group_adjust_pandas" /\ Started) =>
        /\ (Len(groups) # Len(weights) /\ SomeBadGroup) =>
              (pc = "error" /\ errmsg = WeightsMsg)
        /\ pc = "pandas_loop" => Len(groups) = Len(weights)
        /\ errmsg = GroupMsg => Len(groups) = Len(weights)

C10_Witness ==
    /\ pc = "error"
    /\ entry = "group_adjust_pandas"
    /\ Len(groups) # Len(weights)
    /\ Len(groups) = 2
    /\ BadGroup(1)
    /\ errmsg = WeightsMsg

====
